---- MODULE Spec2Model ----
(***************************************************************************)
(* flatpak-extract.py: extraction of a .flatpak bundle through a scratch   *)
(* OSTree repository.                                                      *)
(*                                                                         *)
(* The model has two parts.  The first is main(): the precondition checks, *)
(* the four pipeline steps, the except clauses and the finally block, run  *)
(* against a small file system in which the scratch path and the output    *)
(* path may be unrelated, equal, or nested.  The external `ostree` program *)
(* and shutil.rmtree are the environment: their exit status and their      *)
(* effect on the file system are chosen nondeterministically.  The second  *)
(* part is list_files(): its work-list loop, one iteration per step, over  *)
(* bounded directory trees.                                                *)
(***************************************************************************)
EXTENDS Integers, Sequences, FiniteSets, TLC

\* Number of consecutive invocations of the program on the same file system.
MaxRuns == 2
\* Largest number of *.commit files the scratch repository may hold.
MaxCommits == 2
\* Largest number of entries below the start path of list_files.
MaxNodes == 3

VARIABLES
    \* ---- main() and its environment
    run,          \* number of invocations started so far
    pc,           \* position inside main(): "idle" before the first run
    args,         \* argparse result: [filename_is_file, outdir, tmpdir]
    outdir,       \* resolved output path (line 211/213), <<>> before
    tmpdir,       \* resolved scratch path (line 217/219), <<>> before
    fs,           \* file system: path -> [kind, data]
    fs0,          \* fs as it was when the current run started
    success,      \* main's local `success`
    commit_hash,  \* main's local `commit_hash` (<<>> is None, <<h>> a hash)
    exc,          \* exception in flight: [kind, code]
    exit_code,    \* process exit status, -1 while the process runs
    cmds,         \* commands handed to subprocess.run, with run_command's result
    out,          \* markers of what was printed
    objects,      \* <tmpdir>/objects: [is_dir, commits]
    commit_files, \* list(objects_dir.rglob('*.commit')) of the last discovery
    rm_failed,    \* shutil.rmtree raised in this run
    prev,         \* summary of the previous run
    \* ---- list_files()
    lpc,          \* "off" | "start" | "loop" | "done"
    tree,         \* directory tree below the start path
    startpath,    \* resolved absolute start path
    queue,        \* the work list
    printed       \* lines printed so far

mainVars == <<run, pc, args, outdir, tmpdir, fs, fs0, success, commit_hash, exc,
              exit_code, cmds, out, objects, commit_files, rm_failed, prev>>
listVars == <<lpc, tree, startpath, queue, printed>>
vars == <<mainVars, listVars>>

(***************************************************************************)
(* Paths.  A path is the sequence of its components below the current      *)
(* working directory.                                                      *)
(***************************************************************************)

\* uuid.uuid4() yields a name no earlier run and no existing entry uses.
UuidNames == <<"uuid-1", "uuid-2", "uuid-3", "uuid-4">>

\* The bundle is app.flatpak in the working directory: its stem is "app".
DefaultOutdir == <<"app-flatpak">>

DefaultTmpdir(r) == <<UuidNames[r]>>

\* --tmpdir values ("exists" is the argparse default).
TmpArgs == {"exists", "t", "app-flatpak"}

\* --outdir values ("exists" is the argparse default).
OutArgs == {"exists", "t", "t/o"}

\* Path(arg).resolve() for the arguments above.
Resolve(a) ==
    CASE a = "t" -> <<"t">>
      [] a = "t/o" -> <<"t", "o">>
      [] a = "app-flatpak" -> <<"app-flatpak">>
      [] OTHER -> <<a>>

UserPaths == {<<"app-flatpak">>, <<"t">>, <<"t", "o">>}

Paths == UserPaths \cup {DefaultTmpdir(r) : r \in 1..MaxRuns}

Parent(p) == SubSeq(p, 1, Len(p) - 1)

IsUnder(q, p) == Len(q) > Len(p) /\ SubSeq(q, 1, Len(p)) = p

NoEntry == [kind |-> "none", data |-> "none"]

Exists(f, p) == f[p].kind # "none"

\* The parent of p is the working directory or an existing directory.
ParentIsDir(f, p) == IF Len(p) = 1 THEN TRUE ELSE f[Parent(p)].kind = "dir"

\* File systems the program can be started on: user content only, no entry
\* below a non-directory, no leftover of a uuid name.
WellFormed(f) ==
    /\ \A p \in Paths : Exists(f, p) => ParentIsDir(f, p)
    /\ \A p \in Paths \ UserPaths : ~Exists(f, p)

InitialFs ==
    {f \in [Paths -> {NoEntry, [kind |-> "file", data |-> "user"],
                      [kind |-> "dir", data |-> "user"]}] : WellFormed(f)}

\* shutil.rmtree(p) that completes: p and everything below it are gone.
RmTree(f, p) ==
    [q \in Paths |-> IF q = p \/ IsUnder(q, p) THEN NoEntry ELSE f[q]]

\* shutil.rmtree(p) that raises part-way: entries below p may be gone, p stays.
RmTreePartial(f, p) ==
    [q \in Paths |-> IF IsUnder(q, p) THEN NoEntry ELSE f[q]]

\* What shutil.rmtree(p) can do (line 270): [ok, fs].  It needs a real
\* directory; on a regular file it raises NotADirectoryError.  On a directory
\* it may also raise (permissions, busy entries), with or without having
\* removed part of the content.
RmtreeOutcomes(f, p) ==
    (IF f[p].kind = "dir" THEN {[ok |-> TRUE, fs |-> RmTree(f, p)]} ELSE {})
    \cup {[ok |-> FALSE, fs |-> f]}
    \cup (IF f[p].kind = "dir" THEN {[ok |-> FALSE, fs |-> RmTreePartial(f, p)]} ELSE {})

(***************************************************************************)
(* run_command (lines 11-39).                                              *)
(***************************************************************************)

\* What can happen when run_command is called:
\*   "ok"        the command ran and exited 0;
\*   "nonzero"   the command ran and exited non-zero (CalledProcessError);
\*   "notfound"  the executable is not on PATH (FileNotFoundError);
\*   "error"     another exception inside the try block (line 37);
\*   "raise"     the print of line 13, outside the try block, raised.
RunOutcomes == {"ok", "nonzero", "notfound", "error", "raise"}

\* The result of run_command by outcome: a return value, or the exception
\* that leaves the function.
run_command(outcome) ==
    CASE outcome = "ok" -> "True"
      [] outcome = "nonzero" -> "False"
      [] outcome = "error" -> "False"
      [] outcome = "notfound" -> "SystemExit"
      [] outcome = "raise" -> "Exception"

\* How much of the command's effect on the file system can have happened.
EffectsOf(outcome) ==
    CASE outcome = "ok" -> {"full"}
      [] outcome = "nonzero" -> {"none", "partial"}
      [] outcome = "error" -> {"none", "partial", "full"}
      [] OTHER -> {"none"}

NoExc == [kind |-> "none", code |-> 0]
SystemExit(c) == [kind |-> "SystemExit", code |-> c]
Exception == [kind |-> "Exception", code |-> 1]

\* Variant of AfterCommand in which a False from run_command is not acted on
\* (the `if not run_command(...)` test dropped): the pipeline goes on.
AfterCommandIgnoringFailure(ret, nextpc, succ) ==
    CASE ret = "True" -> [pc |-> nextpc, success |-> succ, exc |-> NoExc]
      [] ret = "False" -> [pc |-> nextpc, success |-> succ, exc |-> NoExc]
      [] ret = "SystemExit" -> [pc |-> "except", success |-> succ, exc |-> SystemExit(1)]
      [] ret = "Exception" -> [pc |-> "except", success |-> succ, exc |-> Exception]

\* The pattern of lines 237-238, 241-242, 250-251:
\*     if not run_command(...): success = False; raise SystemExit(1)
\* with the exceptions run_command itself can raise.  Yields the next
\* position, `success` and the exception in flight.
AfterCommand(ret, nextpc, succ) ==
    CASE ret = "True" -> [pc |-> nextpc, success |-> succ, exc |-> NoExc]
      [] ret = "False" -> [pc |-> "except", success |-> FALSE, exc |-> SystemExit(1)]
      [] ret = "SystemExit" -> [pc |-> "except", success |-> succ, exc |-> SystemExit(1)]
      [] ret = "Exception" -> [pc |-> "except", success |-> succ, exc |-> Exception]

(***************************************************************************)
(* find_commit_hash (lines 41-66).  Names are sequences of characters.     *)
(***************************************************************************)

DotCommit == <<".", "c", "o", "m", "m", "i", "t">>

\* *.commit files the static delta may leave under objects/: [parent, name],
\* the name of the directory holding the file and the file's own name.
CommitUniverse ==
    { [parent |-> <<"a", "b">>, name |-> <<"c", "d", "e", "f">> \o DotCommit],
      [parent |-> <<"0", "1">>, name |-> <<"2", ".", "3">> \o DotCommit],
      [parent |-> <<"a", "b">>, name |-> DotCommit] }

\* str.rfind('.') + 1: the position of the last dot, 0 when there is none.
RFindDot(name) ==
    LET dots == {i \in 1..Len(name) : name[i] = "."}
    IN  IF dots = {} THEN 0 ELSE CHOOSE i \in dots : \A j \in dots : j <= i

\* Variant of Stem that cuts at the first dot (name.split('.')[0]).
StemAtFirstDot(name) ==
    LET dots == {i \in 2..Len(name) : name[i] = "."}
    IN  IF dots = {} THEN name
        ELSE SubSeq(name, 1, (CHOOSE i \in dots : \A j \in dots : i <= j) - 1)

\* PurePath.stem: the name without its last suffix; a leading or a trailing
\* dot starts no suffix.
Stem(name) ==
    LET i == RFindDot(name)
    IN  IF 1 < i /\ i < Len(name) THEN SubSeq(name, 1, i - 1) ELSE name

\* find_commit_hash: <<>> for None, <<hash>> otherwise.  files is
\* list(objects_dir.rglob('*.commit')) in the order the file system gave.
find_commit_hash(is_dir, files) ==
    IF ~is_dir THEN <<>>                                   \* line 48
    ELSE IF files = <<>> THEN <<>>                         \* line 54
    ELSE <<files[1].parent \o Stem(files[1].name)>>        \* lines 61-66

\* All the orders in which a set can be enumerated.
Orders(S) ==
    {s \in [1..Cardinality(S) -> S] : \A i, j \in 1..Cardinality(S) : s[i] = s[j] => i = j}

(***************************************************************************)
(* The external ostree commands: their effect on the file system.  e is    *)
(* "none", "partial" or "full".                                            *)
(***************************************************************************)

NoObjects == [is_dir |-> FALSE, commits |-> {}]

\* ostree init --repo=t --mode=bare-user: creates the repository directory.
InitEffect(f, t, e) ==
    CASE e = "full" -> [f EXCEPT ![t] = [kind |-> "dir", data |-> "repo"]]
      [] e = "partial" -> [f EXCEPT ![t] = [kind |-> "dir", data |-> "partial"]]
      [] OTHER -> f

\* ostree static-delta apply-offline: what objects/ may hold afterwards.
ApplyResults ==
    {NoObjects} \cup
    {[is_dir |-> TRUE, commits |-> S] : S \in {T \in SUBSET CommitUniverse : Cardinality(T) <= MaxCommits}}

\* ostree checkout --repo=t -U hash o: creates o, when the directory that is
\* to hold it exists.
CheckoutEffect(f, o, e) ==
    CASE e = "full" /\ ParentIsDir(f, o) -> [f EXCEPT ![o] = [kind |-> "dir", data |-> "tree"]]
      [] e = "partial" /\ ParentIsDir(f, o) /\ ~Exists(f, o) ->
            [f EXCEPT ![o] = [kind |-> "dir", data |-> "partial"]]
      [] OTHER -> f

(***************************************************************************)
(* main (lines 176-275).                                                   *)
(***************************************************************************)

input_file == <<"app.flatpak">>

\* Lines 209-213.
ResolvedOutdir(a) == IF a.outdir = "exists" THEN DefaultOutdir ELSE Resolve(a.outdir)

\* Lines 215-219.
ResolvedTmpdir(a, r) == IF a.tmpdir = "exists" THEN DefaultTmpdir(r) ELSE Resolve(a.tmpdir)

cmd_init(t) ==
    [sub |-> "init", repo |-> t, opt |-> "--mode=bare-user", hash |-> <<>>, target |-> <<>>]
cmd_apply(t, bundle) ==
    [sub |-> "static-delta apply-offline", repo |-> t, opt |-> "", hash |-> <<>>, target |-> bundle]
cmd_checkout(t, h, o) ==
    [sub |-> "checkout", repo |-> t, opt |-> "-U", hash |-> h, target |-> o]

\* subprocess.run was reached with cmd (every outcome but "raise").
Invoked(log, cmd, outcome) ==
    IF outcome = "raise" THEN log ELSE Append(log, [cmd |-> cmd, ret |-> run_command(outcome)])

NoPrev == [started |-> FALSE, outdir |-> <<>>, checkout_ok |-> FALSE, exit_code |-> -1]

\* The process is started: argparse (lines 177-201).
Start ==
    /\ pc \in {"idle", "exited"}
    /\ run < MaxRuns
    /\ \E isf \in BOOLEAN, o \in OutArgs, t \in TmpArgs :
          args' = [filename_is_file |-> isf, outdir |-> o, tmpdir |-> t]
    /\ run' = run + 1
    /\ pc' = "check_input"
    /\ prev' = IF run = 0 THEN NoPrev
               ELSE [started |-> TRUE, outdir |-> outdir,
                     checkout_ok |-> \E i \in 1..Len(cmds) :
                                        cmds[i].cmd.sub = "checkout" /\ cmds[i].ret = "True",
                     exit_code |-> exit_code]
    /\ fs0' = fs
    /\ outdir' = <<>>
    /\ tmpdir' = <<>>
    /\ success' = TRUE
    /\ commit_hash' = <<>>
    /\ exc' = NoExc
    /\ exit_code' = -1
    /\ cmds' = <<>>
    /\ out' = <<>>
    /\ objects' = NoObjects
    /\ commit_files' = <<>>
    /\ rm_failed' = FALSE
    /\ UNCHANGED <<fs, listVars>>

\* Lines 203-223.
CheckInput ==
    /\ pc = "check_input"
    /\ IF ~args.filename_is_file
       THEN /\ out' = Append(out, "Error: Input file not found")
            /\ exit_code' = 1                                  \* line 207
            /\ pc' = "exited"
            /\ UNCHANGED <<outdir, tmpdir>>
       ELSE /\ outdir' = ResolvedOutdir(args)
            /\ tmpdir' = ResolvedTmpdir(args, run)
            /\ pc' = "check_tmp"
            /\ UNCHANGED <<out, exit_code>>
    /\ commit_hash' = <<>>                                     \* line 222
    /\ success' = TRUE                                         \* line 223
    /\ UNCHANGED <<run, args, fs, fs0, exc, cmds, objects, commit_files, rm_failed,
                   prev, listVars>>

\* Lines 226-229.
CheckTmp ==
    /\ pc = "check_tmp"
    /\ IF Exists(fs, tmpdir)
       THEN /\ out' = Append(out, "Error: Path for temporary directory already exists")
            /\ exc' = SystemExit(1)
            /\ pc' = "except"
       ELSE /\ pc' = "check_out"
            /\ UNCHANGED <<out, exc>>
    /\ UNCHANGED <<run, args, outdir, tmpdir, fs, fs0, success, commit_hash, exit_code,
                   cmds, objects, commit_files, rm_failed, prev, listVars>>

\* Lines 231-234.
CheckOut ==
    /\ pc = "check_out"
    /\ IF Exists(fs, outdir)
       THEN /\ out' = Append(out, "Error: Path for out directory already exists")
            /\ exc' = SystemExit(1)
            /\ pc' = "except"
       ELSE /\ pc' = "init"
            /\ UNCHANGED <<out, exc>>
    /\ UNCHANGED <<run, args, outdir, tmpdir, fs, fs0, success, commit_hash, exit_code,
                   cmds, objects, commit_files, rm_failed, prev, listVars>>

\* Lines 236-238.
OstreeInit ==
    /\ pc = "init"
    /\ \E outcome \in RunOutcomes, e \in {"none", "partial", "full"} :
          /\ e \in EffectsOf(outcome)
          /\ fs' = InitEffect(fs, tmpdir, e)
          /\ cmds' = Invoked(cmds, cmd_init(tmpdir), outcome)
          /\ LET n == AfterCommand(run_command(outcome), "apply", success)
             IN  pc' = n.pc /\ success' = n.success /\ exc' = n.exc
    /\ UNCHANGED <<run, args, outdir, tmpdir, fs0, commit_hash, exit_code, out,
                   objects, commit_files, rm_failed, prev, listVars>>

\* Lines 240-242.
ApplyOffline ==
    /\ pc = "apply"
    /\ \E outcome \in RunOutcomes, e \in {"none", "full"} :
          /\ e \in EffectsOf(outcome)
          /\ IF e = "full" THEN objects' \in ApplyResults ELSE objects' = objects
          /\ cmds' = Invoked(cmds, cmd_apply(tmpdir, input_file), outcome)
          /\ LET n == AfterCommand(run_command(outcome), "find", success)
             IN  pc' = n.pc /\ success' = n.success /\ exc' = n.exc
    /\ UNCHANGED <<run, args, outdir, tmpdir, fs, fs0, commit_hash, exit_code, out,
                   commit_files, rm_failed, prev, listVars>>

\* Lines 244-247.  rglob may raise (an unreadable directory): that exception
\* reaches main's `except Exception`.
FindCommit ==
    /\ pc = "find"
    /\ \/ /\ \E files \in Orders(objects.commits) :
                /\ commit_files' = files
                /\ commit_hash' = find_commit_hash(objects.is_dir, files)
          /\ IF commit_hash' = <<>>
             THEN /\ out' = Append(out, "Error: Could not determine commit hash.")
                  /\ success' = FALSE
                  /\ exc' = SystemExit(1)
                  /\ pc' = "except"
             ELSE /\ pc' = "checkout"
                  /\ UNCHANGED <<out, success, exc>>
       \/ /\ objects.is_dir
          /\ exc' = Exception
          /\ pc' = "except"
          /\ UNCHANGED <<commit_files, commit_hash, out, success>>
    /\ UNCHANGED <<run, args, outdir, tmpdir, fs, fs0, exit_code, cmds, objects,
                   rm_failed, prev, listVars>>

\* Lines 249-251.
Checkout ==
    /\ pc = "checkout"
    /\ \E outcome \in RunOutcomes, e \in {"none", "partial", "full"} :
          /\ e \in EffectsOf(outcome)
          /\ outcome = "ok" => ParentIsDir(fs, outdir)
          /\ fs' = CheckoutEffect(fs, outdir, e)
          /\ cmds' = Invoked(cmds, cmd_checkout(tmpdir, commit_hash[1], outdir), outcome)
          /\ LET n == AfterCommand(run_command(outcome), "list", success)
             IN  pc' = n.pc /\ success' = n.success /\ exc' = n.exc
    /\ UNCHANGED <<run, args, outdir, tmpdir, fs0, commit_hash, exit_code, out,
                   objects, commit_files, rm_failed, prev, listVars>>

\* Lines 253-256.  list_files handles its own errors; a print that raises
\* (a closed or non-UTF-8 stdout) reaches main's `except Exception`.
ListFiles ==
    /\ pc = "list"
    /\ \/ /\ out' = out \o <<"Files extracted:", "DONE.">>
          /\ pc' = "finally"
          /\ UNCHANGED exc
       \/ /\ out' = Append(out, "Files extracted:")
          /\ exc' = Exception
          /\ pc' = "except"
    /\ UNCHANGED <<run, args, outdir, tmpdir, fs, fs0, success, commit_hash, exit_code,
                   cmds, objects, commit_files, rm_failed, prev, listVars>>

\* Lines 258-260: except SystemExit as e: sys.exit(e.code).
ExceptSystemExit ==
    /\ pc = "except"
    /\ exc.kind = "SystemExit"
    /\ out' = Append(out, "Extract process failed.")
    /\ exc' = SystemExit(exc.code)
    /\ pc' = "finally"
    /\ UNCHANGED <<run, args, outdir, tmpdir, fs, fs0, success, commit_hash, exit_code,
                   cmds, objects, commit_files, rm_failed, prev, listVars>>

\* Lines 261-264: except Exception: success = False; sys.exit(1).
ExceptException ==
    /\ pc = "except"
    /\ exc.kind = "Exception"
    /\ out' = Append(out, "An unexpected error occurred")
    /\ success' = FALSE
    /\ exc' = SystemExit(1)
    /\ pc' = "finally"
    /\ UNCHANGED <<run, args, outdir, tmpdir, fs, fs0, commit_hash, exit_code,
                   cmds, objects, commit_files, rm_failed, prev, listVars>>

\* Variant of StatusOf for a bare sys.exit() in the except clauses.
StatusAlwaysZero(e) == 0

\* The status the process ends with when the finally block is left with e
\* in flight: a SystemExit's code, 0 when main returns.
StatusOf(e) == IF e.kind = "none" THEN 0 ELSE e.code

\* Variant of StatusAfterFailedCleanup without the `if success: sys.exit(1)`.
StatusNeverEscalated(succ, e) == IF e.kind = "none" THEN 0 ELSE e.code

\* Lines 274-275: the status after shutil.rmtree raised.
StatusAfterFailedCleanup(succ, e) == IF succ THEN 1 ELSE StatusOf(e)

\* Variant of Cleanup for a main without the finally block.
CleanupSkipped(f, t) == {[ok |-> TRUE, fs |-> f]}

\* Lines 268-270: what the finally block does to the file system: the
\* possible [ok, fs], ok being FALSE when shutil.rmtree raised.
Cleanup(f, t) ==
    IF Exists(f, t) THEN RmtreeOutcomes(f, t) ELSE {[ok |-> TRUE, fs |-> f]}

\* Lines 266-275, and the end of the process.
Finally ==
    /\ pc = "finally"
    /\ \E r \in Cleanup(fs, tmpdir) :
          /\ fs' = r.fs
          /\ rm_failed' = ~r.ok
          /\ IF r.ok
             THEN /\ exit_code' = StatusOf(exc)
                  /\ out' = out
             ELSE /\ exit_code' = StatusAfterFailedCleanup(success, exc)
                  /\ out' = Append(out, "Warning: Failed to remove temporary directory")
    /\ pc' = "exited"
    /\ UNCHANGED <<run, args, outdir, tmpdir, fs0, success, commit_hash, exc, cmds,
                   objects, commit_files, prev, listVars>>

ListOff ==
    /\ lpc = "off"
    /\ tree = [nodes |-> {}, dirs |-> {}, locked |-> {}]
    /\ startpath = <<>>
    /\ queue = <<>>
    /\ printed = <<>>

Init ==
    /\ run = 0
    /\ pc = "idle"
    /\ args = [filename_is_file |-> FALSE, outdir |-> "exists", tmpdir |-> "exists"]
    /\ outdir = <<>>
    /\ tmpdir = <<>>
    /\ fs \in InitialFs
    /\ fs0 = fs
    /\ success = TRUE
    /\ commit_hash = <<>>
    /\ exc = NoExc
    /\ exit_code = -1
    /\ cmds = <<>>
    /\ out = <<>>
    /\ objects = NoObjects
    /\ commit_files = <<>>
    /\ rm_failed = FALSE
    /\ prev = NoPrev
    /\ ListOff

Next ==
    \/ Start
    \/ CheckInput
    \/ CheckTmp
    \/ CheckOut
    \/ OstreeInit
    \/ ApplyOffline
    \/ FindCommit
    \/ Checkout
    \/ ListFiles
    \/ ExceptSystemExit
    \/ ExceptException
    \/ Finally

Spec == Init /\ [][Next]_vars

(***************************************************************************)
(* list_files (lines 69-171).                                              *)
(*                                                                         *)
(* A tree is [root, nodes, dirs, locked]: the kind of the start path       *)
(* ("none" when it does not exist), the paths below it (relative to it),   *)
(* those that are directories, and the directories whose iterdir() raises  *)
(* PermissionError (<<>> is the start path itself).                        *)
(***************************************************************************)

\* Entry names in str order ('B' < 'a' < 'b').
NameOrder == <<"B", "a", "b">>

Names == {NameOrder[i] : i \in 1..Len(NameOrder)}

Rank(name) == CHOOSE i \in 1..Len(NameOrder) : NameOrder[i] = name

cwd == <<"home">>

\* The start path is a direct child of the working directory, or is not.
StartPaths == {<<"home", "L">>, <<"srv", "L">>}

\* The trees with at most n entries below a start path that is a directory.
RECURSIVE Shapes(_)
Shapes(n) ==
    IF n = 0 THEN {[nodes |-> {}, dirs |-> {}]}
    ELSE LET smaller == Shapes(n - 1)
             Grow(t) ==
                 UNION {{[nodes |-> t.nodes \cup {Append(d, nm)},
                          dirs |-> IF isd THEN t.dirs \cup {Append(d, nm)} ELSE t.dirs]
                           : isd \in BOOLEAN}
                        : <<d, nm>> \in {x \in (t.dirs \cup {<<>>}) \X Names
                                            : Append(x[1], x[2]) \notin t.nodes}}
         IN  smaller \cup UNION {Grow(t) : t \in smaller}

Trees ==
    {[root |-> "none", nodes |-> {}, dirs |-> {}, locked |-> {}],
     [root |-> "file", nodes |-> {}, dirs |-> {}, locked |-> {}]}
    \cup UNION {{[root |-> "dir", nodes |-> t.nodes, dirs |-> t.dirs, locked |-> l]
                   : l \in SUBSET (t.dirs \cup {<<>>})}
                : t \in Shapes(MaxNodes)}

\* Path.is_dir() of the entry at relative path r.
IsDir(t, r) == IF r = <<>> THEN t.root = "dir" ELSE r \in t.dirs

\* The entries of directory r.
Children(t, r) == {q \in t.nodes : Len(q) = Len(r) + 1 /\ SubSeq(q, 1, Len(r)) = r}

\* Insertion of path x into a list sorted by name (the last component).
RECURSIVE Insert(_, _)
Insert(x, s) ==
    IF s = <<>> THEN <<x>>
    ELSE IF Rank(x[Len(x)]) < Rank(Head(s)[Len(Head(s))]) THEN <<x>> \o s
    ELSE <<Head(s)>> \o Insert(x, Tail(s))

\* sorted(paths, key=lambda p: p.name), line 151.
RECURSIVE Sorted(_)
Sorted(s) == IF s = <<>> THEN <<>> ELSE Insert(Head(s), Sorted(Tail(s)))

\* Variant of InsertFront: queue.extend(entries), the breadth-first order of
\* the comment on line 154.
InsertBack(es, q) == q \o es

\* queue[0:0] = entries, line 153.
InsertFront(es, q) == es \o q

\* Line 104.
use_relative(sp) == Parent(sp) = cwd

\* Lines 116-132: the string printed for path cur, as its components after
\* "./" or after "/".
path_str(sp, cur) ==
    IF use_relative(sp)
    THEN IF Len(cur) >= Len(cwd) /\ SubSeq(cur, 1, Len(cwd)) = cwd   \* is_relative_to
         THEN <<".">> \o SubSeq(cur, Len(cwd) + 1, Len(cur))
         ELSE <<"/">> \o cur
    ELSE <<"/">> \o cur

\* The path of a queue element relative to the start path.
Rel(sp, cur) == SubSeq(cur, Len(sp) + 1, Len(cur))

PathLine(s) == [line |-> "path", text |-> s]
ErrorLine(s) == [line |-> "error", text |-> s]

\* Lines 85-108.
ListStart ==
    /\ lpc = "start"
    /\ IF tree.root = "none"
       THEN /\ printed' = Append(printed, ErrorLine(<<"/">> \o startpath))   \* line 91
            /\ queue' = <<>>
            /\ lpc' = "done"
       ELSE /\ queue' = <<startpath>>                                       \* line 108
            /\ printed' = printed
            /\ lpc' = "loop"
    /\ UNCHANGED <<mainVars, tree, startpath>>

\* One iteration of the loop, lines 110-171.
ListStep ==
    /\ lpc = "loop"
    /\ queue # <<>>
    /\ LET current_path == Head(queue)                                      \* line 111
           r == Rel(startpath, current_path)
           text == path_str(startpath, current_path)
       IN  IF ~IsDir(tree, r)
           THEN /\ printed' = Append(printed, PathLine(text))               \* line 141
                /\ queue' = Tail(queue)
           ELSE IF r \in tree.locked
           THEN /\ printed' = printed \o <<PathLine(text), ErrorLine(text)>> \* lines 141, 159
                /\ queue' = Tail(queue)
           ELSE \E listing \in Orders({startpath \o c : c \in Children(tree, r)}) :
                  /\ printed' = Append(printed, PathLine(text))
                  /\ queue' = InsertFront(Sorted(listing), Tail(queue))     \* lines 151-153
    /\ UNCHANGED <<mainVars, tree, startpath, lpc>>

\* Line 110: the loop ends when the work list is empty.
ListReturn ==
    /\ lpc = "loop"
    /\ queue = <<>>
    /\ lpc' = "done"
    /\ UNCHANGED <<mainVars, tree, startpath, queue, printed>>

MainOff ==
    /\ run = 0
    /\ pc = "idle"
    /\ args = [filename_is_file |-> FALSE, outdir |-> "exists", tmpdir |-> "exists"]
    /\ outdir = <<>>
    /\ tmpdir = <<>>
    /\ fs = [p \in Paths |-> NoEntry]
    /\ fs0 = fs
    /\ success = TRUE
    /\ commit_hash = <<>>
    /\ exc = NoExc
    /\ exit_code = -1
    /\ cmds = <<>>
    /\ out = <<>>
    /\ objects = NoObjects
    /\ commit_files = <<>>
    /\ rm_failed = FALSE
    /\ prev = NoPrev

InitList ==
    /\ MainOff
    /\ lpc = "start"
    /\ tree \in Trees
    /\ startpath \in StartPaths
    /\ queue = <<>>
    /\ printed = <<>>

NextList ==
    \/ ListStart
    \/ ListStep
    \/ ListReturn

\* list_files runs to completion: nothing suspends the loop.
SpecList == InitList /\ [][NextList]_vars /\ WF_vars(NextList)

(***************************************************************************)
(* Properties.                                                             *)
(***************************************************************************)

Exited == pc = "exited"

Has(s, x) == \E i \in 1..Len(s) : s[i] = x

\* The paths the current run works on, from its arguments.
OutdirArg == ResolvedOutdir(args)
TmpdirArg == ResolvedTmpdir(args, run)

\* The entry at p and everything below it are as they were when the run started.
Untouched(p) == \A q \in Paths : (q = p \/ IsUnder(q, p)) => fs[q] = fs0[q]

\* The run got past the three precondition checks.
PassedChecks ==
    /\ args.filename_is_file
    /\ ~Exists(fs0, TmpdirArg)
    /\ ~Exists(fs0, OutdirArg)

AllStepsSucceeded == Len(cmds) = 3 /\ \A i \in 1..3 : cmds[i].ret = "True"

\* Preconditions met, the three commands and the discovery succeeded, the
\* listing was printed to its end.
FullSuccess == PassedChecks /\ AllStepsSucceeded /\ Has(out, "DONE.")

CouldNotDetermine == "Error: Could not determine commit hash."

CleanupWarning == "Warning: Failed to remove temporary directory"

\* C1: when the output path exists at the start of a run whose input file is
\* present, the run ends with a non-zero status, hands no command to ostree
\* and leaves the output path and everything below it as it was, whether or
\* not the scratch path exists too.
C1_ExistingOutdirUntouched ==
    (Exited /\ args.filename_is_file /\ Exists(fs0, OutdirArg))
        => (exit_code # 0 /\ cmds = <<>> /\ Untouched(OutdirArg))

\* C2: when the scratch path exists at the start of a run, the run ends with
\* a non-zero status, hands no command to ostree, and the scratch path still
\* exists with its original content.
C2_ExistingTmpdirUntouched ==
    (Exited /\ args.filename_is_file /\ Exists(fs0, TmpdirArg))
        => (exit_code # 0 /\ cmds = <<>> /\ Exists(fs, TmpdirArg) /\ Untouched(TmpdirArg))

\* C3: a run that passed the precondition checks and whose removal of the
\* scratch directory did not fail ends with no entry at the scratch path,
\* at whichever step it stopped.
C3_ScratchRemoved ==
    (Exited /\ PassedChecks /\ ~rm_failed) => ~Exists(fs, tmpdir)

\* C3 witness: the pipeline failed after the repository had been created,
\* and the scratch path is gone at exit.
C3_Witness ==
    /\ Exited /\ PassedChecks /\ ~rm_failed
    /\ Len(cmds) >= 2
    /\ cmds[1].ret = "True"
    /\ cmds[Len(cmds)].ret = "False"
    /\ ~Exists(fs, tmpdir)

\* C4 as stated: the exit status is 0 exactly on full success (input file
\* present, no pre-existing scratch or output path, init, apply-offline,
\* discovery and checkout all succeeded) and 1 on every other outcome.
C4_ExitZeroIffFullSuccess ==
    Exited => IF FullSuccess THEN exit_code = 0 ELSE exit_code = 1

\* C4 amended: the exit status is 0 exactly when the run succeeded in full
\* and the removal of the scratch directory did not fail; it is 1 otherwise.
C4_ExitZeroIffSuccessAndCleanup ==
    Exited => IF FullSuccess /\ ~rm_failed THEN exit_code = 0 ELSE exit_code = 1

\* C4 witness: every step succeeded, the cleanup failed, the status is 1.
C4_Witness == Exited /\ FullSuccess /\ rm_failed /\ exit_code = 1

\* The i-th command of the pipeline.
ExpectedCmd(i) ==
    CASE i = 1 -> cmd_init(tmpdir)
      [] i = 2 -> cmd_apply(tmpdir, input_file)
      [] OTHER -> cmd_checkout(tmpdir, IF commit_hash = <<>> THEN <<>> ELSE commit_hash[1], outdir)

\* C5: the commands are init, apply-offline, checkout in that order, with
\* the scratch path, the bundle, the discovered hash and the output path as
\* arguments; a command is started only after the previous one returned
\* success; checkout is started only after a hash was found, never when the
\* repository holds no *.commit file; the listing and "DONE." are printed
\* only after a successful checkout.
C5_PipelineOrder ==
    /\ Len(cmds) <= 3
    /\ \A i \in 1..Len(cmds) : cmds[i].cmd = ExpectedCmd(i)
    /\ \A i \in 2..Len(cmds) : cmds[i - 1].ret = "True"
    /\ pc = "apply" => (Len(cmds) = 1 /\ cmds[1].ret = "True")
    /\ pc \in {"find", "checkout"} => (Len(cmds) = 2 /\ cmds[2].ret = "True")
    /\ Len(cmds) = 3 => (commit_hash # <<>> /\ objects.is_dir /\ objects.commits # {})
    /\ (pc = "list" \/ Has(out, "Files extracted:") \/ Has(out, "DONE."))
          => (Len(cmds) = 3 /\ cmds[3].ret = "True")

\* C5 witness: init and apply-offline succeeded, the repository holds no
\* *.commit file, and the run ended in failure with checkout never started.
C5_Witness ==
    /\ Exited
    /\ Len(cmds) = 2
    /\ cmds[2].ret = "True"
    /\ objects.is_dir /\ objects.commits = {}
    /\ Has(out, CouldNotDetermine)
    /\ exit_code = 1

\* st is the stem of name: name without its last suffix, a suffix being a
\* dot that is neither the first nor the last character, and what follows.
IsStemOf(st, name) ==
    LET cut == {k \in 1..(Len(name) - 2) :
                   name[k + 1] = "." /\ \A j \in (k + 2)..Len(name) : name[j] # "."}
    IN  IF cut = {} THEN st = name ELSE \E k \in cut : st = SubSeq(name, 1, k)

Prefixes(name) == {SubSeq(name, 1, k) : k \in 0..Len(name)}

AbCdefCommit == [parent |-> <<"a", "b">>, name |-> <<"c", "d", "e", "f">> \o DotCommit]

\* C6: the discovered hash is the name of the directory holding the first
\* *.commit file found, followed by that file's stem; a repository whose
\* only such file is objects/ab/cdef.commit gives abcdef; no file, or no
\* objects directory, gives no hash and ends the run with status 1 before
\* checkout; several files give the first one's hash and are not fatal.
C6_CommitHash ==
    /\ commit_hash # <<>> =>
          /\ objects.is_dir
          /\ commit_files # <<>>
          /\ \E st \in Prefixes(commit_files[1].name) :
                /\ IsStemOf(st, commit_files[1].name)
                /\ commit_hash[1] = commit_files[1].parent \o st
    /\ commit_files # <<>> => commit_hash # <<>>
    /\ commit_files = <<AbCdefCommit>> => commit_hash = << <<"a", "b", "c", "d", "e", "f">> >>
    /\ Has(out, CouldNotDetermine) =>
          /\ commit_hash = <<>>
          /\ ~objects.is_dir \/ objects.commits = {}
          /\ Len(cmds) = 2
          /\ Exited => exit_code = 1
    /\ pc \in {"checkout", "list"} => commit_hash # <<>>
    /\ Len(commit_files) > 1 => ~Has(out, CouldNotDetermine)

\* C6 witness: two *.commit files, objects/ab/cdef.commit found first, the
\* hash is abcdef and the run goes on to checkout.
C6_Witness ==
    /\ pc = "checkout"
    /\ Len(commit_files) = 2
    /\ commit_files[1] = AbCdefCommit
    /\ commit_hash = << <<"a", "b", "c", "d", "e", "f">> >>

\* C7: no step of a run removes what is at the output path: an entry that
\* exists there before a step exists there after it.
C7_OutdirNeverRemoved ==
    [][(pc \in {"check_tmp", "check_out", "init", "apply", "find", "checkout", "list",
                "except", "finally"} /\ Exists(fs, outdir)) => Exists(fs', outdir)]_vars

\* C8: when an earlier run produced the default output directory, a later
\* run on the same bundle with the default output directory ends with a
\* non-zero status, hands no command to ostree and leaves that directory as
\* it was.
C8_SecondRunFails ==
    (/\ Exited
     /\ prev.started /\ prev.checkout_ok /\ prev.exit_code = 0
     /\ prev.outdir = DefaultOutdir
     /\ args.filename_is_file /\ args.outdir = "exists"
     /\ fs0[DefaultOutdir] = [kind |-> "dir", data |-> "tree"])
        => (exit_code # 0 /\ cmds = <<>> /\ Untouched(DefaultOutdir))

\* C9: when the removal of the scratch directory fails a warning is printed
\* and the status is non-zero: 1 when the extraction had succeeded, the
\* failure's own code when it had not; and no run ends with status 0 while
\* the scratch path still exists.
C9_CleanupFailure ==
    Exited =>
        /\ rm_failed => (Has(out, CleanupWarning) /\ exit_code # 0)
        /\ (rm_failed /\ success) => exit_code = 1
        /\ (rm_failed /\ ~success) => (exc.kind = "SystemExit" /\ exit_code = exc.code)
        /\ exit_code = 0 => (tmpdir # <<>> /\ ~Exists(fs, tmpdir))

\* C9 witness: the extraction succeeded, the removal failed, the scratch
\* directory is left behind, the warning is printed and the status is 1.
C9_Witness ==
    /\ Exited /\ AllStepsSucceeded /\ Has(out, "DONE.") /\ success
    /\ rm_failed /\ Exists(fs, tmpdir)
    /\ Has(out, CleanupWarning)
    /\ exit_code = 1

\* The entries of directory r in name order.
ChildrenInOrder(t, r) ==
    CHOOSE s \in Orders(Children(t, r)) :
        \A i, j \in 1..Len(s) : i < j => Rank(s[i][Len(s[i])]) < Rank(s[j][Len(s[j])])

\* The pre-order walk of the tree from r: r, then the walk of each of its
\* entries in name order.  With `readable`, the entries of a directory
\* whose listing raises are left out.
RECURSIVE PreOrder(_, _, _), PreOrderAll(_, _, _)
PreOrder(t, r, readable) ==
    <<r>> \o (IF IsDir(t, r) /\ ~(readable /\ r \in t.locked)
              THEN PreOrderAll(t, ChildrenInOrder(t, r), readable)
              ELSE <<>>)
PreOrderAll(t, s, readable) ==
    IF s = <<>> THEN <<>>
    ELSE PreOrder(t, Head(s), readable) \o PreOrderAll(t, Tail(s), readable)

\* The text of the line for the entry at relative path r.
Rendered(sp, r) ==
    IF Parent(sp) = cwd THEN <<".", sp[Len(sp)]>> \o r ELSE <<"/">> \o sp \o r

RenderedAll(sp, s) == [i \in 1..Len(s) |-> Rendered(sp, s[i])]

\* The path lines printed, in order.
RECURSIVE PathTexts(_)
PathTexts(s) ==
    IF s = <<>> THEN <<>>
    ELSE (IF Head(s).line = "path" THEN <<Head(s).text>> ELSE <<>>) \o PathTexts(Tail(s))

====
